---- MODULE Spec2Model ----
(***************************************************************************)
(* Model of the SQLite-backed cache of src/src/cache_manager.py            *)
(* (class CacheManager): three tables keyed by a generated cache key,      *)
(* rows holding JSON text and two ISO-8601 timestamps, lazy expiration on  *)
(* read, an explicit sweep, a full wipe and statistics.                    *)
(*                                                                         *)
(* Strings are modelled as sequences of tokens: Python's string            *)
(* concatenation is sequence concatenation, and two strings are equal iff  *)
(* their token sequences are equal.  Time is counted in clock ticks, the   *)
(* resolution of datetime.now(); UsPerSec ticks make one second.           *)
(***************************************************************************)
EXTENDS Integers, Sequences, FiniteSets, TLC

(***************************************************************************)
(* Bounds of the model.                                                    *)
(***************************************************************************)
\* last clock reading the model explores
MaxTime == 1
\* ticks per second (10^6 microseconds in the program, scaled down)
UsPerSec == 2
\* seconds per hour (3600 in the program, scaled down)
SecPerHour == 1
\* longest request, in tokens over all parameter values, given to the key generator
MaxValLen == 3

(***************************************************************************)
(* Strings.                                                                *)
(***************************************************************************)
\* Python's order on the parameter names the cache uses (str.__lt__)
NameRank == [end_date |-> 1, start_date |-> 2, user_id |-> 3]

NameLess(a, b) == NameRank[a] < NameRank[b]

\* insert one (name, value) item into a list already sorted by name
RECURSIVE InsertItem(_, _)
InsertItem(item, sorted) ==
    IF sorted = <<>> THEN <<item>>
    ELSE IF NameLess(item[1], Head(sorted)[1]) THEN <<item>> \o sorted
    ELSE <<Head(sorted)>> \o InsertItem(item, Tail(sorted))

\* a mutant of SortedItems: the items stay in the order supplied
SortedItemsUnsorted(params) == params

\* sorted(params.items()): params is the keyword mapping in the order supplied
RECURSIVE SortedItems(_)
SortedItems(params) ==
    IF params = <<>> THEN <<>>
    ELSE InsertItem(Head(params), SortedItems(Tail(params)))

\* "_".join(parts)
RECURSIVE JoinUnderscore(_)
JoinUnderscore(parts) ==
    IF parts = <<>> THEN <<>>
    ELSE IF Len(parts) = 1 THEN parts[1]
    ELSE parts[1] \o <<"_">> \o JoinUnderscore(Tail(parts))

\* a mutant of _generate_cache_key: the second and later parameters are dropped
GenerateCacheKeyFirstOnly(data_type, params) ==
    LET items == SortedItems(params)
    IN  <<data_type, ":">> \o
        (IF items = <<>> THEN <<>> ELSE <<items[1][1], "=">> \o items[1][2])

\* CacheManager._generate_cache_key
GenerateCacheKey(data_type, params) ==
    LET items == SortedItems(params)
        parts == [i \in 1..Len(items) |-> <<items[i][1], "=">> \o items[i][2]]
    IN  <<data_type, ":">> \o JoinUnderscore(parts)

(***************************************************************************)
(* JSON text of a payload.  A payload is a JSON array of record ids.       *)
(***************************************************************************)
Digits == <<"0", "1", "2", "3", "4", "5", "6", "7", "8", "9">>

\* str(n) for a one-digit number
IntToStr(n) == Digits[n + 1]

\* int(s) for a one-digit numeral
StrToInt(s) == (CHOOSE i \in 1..Len(Digits) : Digits[i] = s) - 1

RECURSIVE DumpItems(_)
DumpItems(payload) ==
    IF payload = <<>> THEN <<>>
    ELSE IF Len(payload) = 1 THEN <<IntToStr(payload[1])>>
    ELSE <<IntToStr(payload[1]), ", ">> \o DumpItems(Tail(payload))

\* json.dumps(payload)
JsonDumps(payload) == <<"[">> \o DumpItems(payload) \o <<"]">>

RECURSIVE LoadItems(_)
LoadItems(toks) ==
    IF toks = <<>> THEN <<>>
    ELSE IF Head(toks) = ", " THEN LoadItems(Tail(toks))
    ELSE <<StrToInt(Head(toks))>> \o LoadItems(Tail(toks))

\* a mutant of json.loads: the last element of the array is lost
JsonLoadsTruncating(text) ==
    LET items == LoadItems(SubSeq(text, 2, Len(text) - 1))
    IN  IF items = <<>> THEN <<>> ELSE SubSeq(items, 1, Len(items) - 1)

\* json.loads(text)
JsonLoads(text) == LoadItems(SubSeq(text, 2, Len(text) - 1))

(***************************************************************************)
(* Timestamps.  A datetime is a number of ticks; its ISO text is the       *)
(* seconds field followed by the microseconds field, which isoformat()     *)
(* leaves out when it is zero.                                             *)
(***************************************************************************)
\* datetime.isoformat()
IsoFormat(t) ==
    IF t % UsPerSec = 0 THEN <<t \div UsPerSec>>
    ELSE <<t \div UsPerSec, t % UsPerSec>>

\* datetime.fromisoformat(text)
FromIsoFormat(text) ==
    IF Len(text) = 1 THEN text[1] * UsPerSec ELSE text[1] * UsPerSec + text[2]

\* SQLite's comparison of two TEXT values (memcmp, the shorter one first on a tie)
RECURSIVE TextLess(_, _)
TextLess(a, b) ==
    IF b = <<>> THEN FALSE
    ELSE IF a = <<>> THEN TRUE
    ELSE IF Head(a) # Head(b) THEN Head(a) < Head(b)
    ELSE TextLess(Tail(a), Tail(b))

\* a mutant of timedelta(hours = h): the interval points backwards
HoursBackwards(h) == 0 - h * SecPerHour * UsPerSec

\* timedelta(hours = h), in ticks
Hours(h) == h * SecPerHour * UsPerSec

(***************************************************************************)
(* The store.                                                              *)
(***************************************************************************)
\* the three tables _init_database creates
TableNames == {"activities_cache", "body_composition_cache", "user_profile_cache"}

\* the CacheManager instances opened on the one cache directory: one with a
\* positive ttl_hours and one with ttl_hours = 0, as the tests construct them
Managers == {"valid_cache", "expired_cache"}

\* the date ranges requested, (start_date, end_date)
DateRanges ==
    { << <<"2024-01-01">>, <<"2024-01-31">> >>,
      << <<"2024-02-01">>, <<"2024-02-28">> >> }

\* the date ranges body composition is requested for
BodyRanges == { << <<"2024-01-01">>, <<"2024-01-31">> >> }

\* the user ids requested
UserIds == { <<"default">> }

\* the activities each manager caches: JSON arrays of record ids
Payloads == [valid_cache |-> <<1, 2>>, expired_cache |-> <<1>>]

\* the body composition cached
Compositions == { <<1>> }

\* the user profile cached
Profiles == { <<2>> }

VARIABLES
    clock,      \* the reading datetime.now() gives, in ticks
    ttl_hours,  \* self.ttl_hours of every manager
    tables,     \* table name -> (cache_key -> row): the SQLite file
    ghost,      \* per stored row: the payload and expiration its set was given
    op,         \* the operation that has just run, with what it saw and computed
    ret,        \* what that operation returned
    last_set,   \* the (table, key) last written, until an operation on it follows
    kreq,       \* key generator: the request (data_type, params) drawn
    kout,       \* key generator: the keys generated, each with the params as supplied
    deco,       \* retry wrapper: the arguments retry_with_backoff was given
    inv,        \* retry wrapper: thread -> its invocation of the wrapped function
    gc,         \* GarminClient: self.client, self.use_cache, self.cache
    call,       \* GarminClient: the operation that has just run and what it did
    batch,      \* TrainingAnalyzer: where run_analysis stands and what it holds
    pend        \* interleaved managers: manager -> the get it is in the middle of

vars ==
    <<clock, ttl_hours, tables, ghost, op, ret, last_set, kreq, kout, deco, inv,
      gc, call, batch, pend>>

\* the variables of the store
svars == <<clock, ttl_hours, tables, ghost, op, ret, last_set>>

\* the variables of the key generator
kvars == <<kreq, kout>>

\* the variables of the retry wrapper
rvars == <<deco, inv>>

\* the variables of the Garmin client
cvars == <<gc, call>>

\* the variable of the orchestrator
avars == <<batch>>

\* the variable of the gets in progress
pvars == <<pend>>

\* Python's None as a return value
RetNone == [kind |-> "None"]

RetPayload(v) == [kind |-> "payload", value |-> v]

RetStats(s) == [kind |-> "stats", stats |-> s]

\* a row of a cache table (cache_key is the function argument)
Row(data, created_at, expires_at) ==
    [data |-> data, created_at |-> created_at, expires_at |-> expires_at]

\* a mutant of INSERT OR REPLACE: the row a key already has is kept
InsertOrIgnore(table, cache_key, row) ==
    [k \in DOMAIN table \cup {cache_key} |->
        IF k \in DOMAIN table THEN table[k] ELSE row]

\* INSERT OR REPLACE INTO <table> VALUES (cache_key, ...): cache_key is the
\* PRIMARY KEY of the table, which holds at most one row per key
InsertOrReplace(table, cache_key, row) ==
    [k \in DOMAIN table \cup {cache_key} |->
        IF k = cache_key THEN row ELSE table[k]]

\* DELETE FROM <table> WHERE cache_key IN keys
DeleteKeys(table, keys) == [k \in DOMAIN table \ keys |-> table[k]]

\* the ghost of the rows that remain
Restrict(g, table) == [k \in DOMAIN table |-> g[k]]

EmptyTable == [k \in {} |-> Row(<<>>, <<>>, <<>>)]

CacheInit ==
    /\ clock = 0
    /\ ttl_hours = [valid_cache |-> 1, expired_cache |-> 0]
    /\ tables = [t \in TableNames |-> EmptyTable]
    /\ ghost = [t \in TableNames |-> EmptyTable]
    /\ op = [name |-> "__init__"]
    /\ ret = RetNone
    /\ last_set = <<>>

(***************************************************************************)
(* The operations of CacheManager.                                         *)
(***************************************************************************)
\* the names of the operations that write a row
SetNames == {"set_activities", "set_body_composition", "set_user_profile"}

\* the names of the operations that read a row
GetNames == {"get_activities", "get_body_composition", "get_user_profile"}

\* the table each of them works on
TableOf ==
    [get_activities |-> "activities_cache", set_activities |-> "activities_cache",
     get_body_composition |-> "body_composition_cache",
     set_body_composition |-> "body_composition_cache",
     get_user_profile |-> "user_profile_cache",
     set_user_profile |-> "user_profile_cache"]

\* the ghost of a row written now
Written(payload, created_at, expires_at) ==
    [payload |-> payload, created |-> created_at, expires |-> expires_at]

\* the body the three set_* methods share: created_at = now, expires_at =
\* created_at + ttl, INSERT OR REPLACE, commit; returns None
Store(m, name, tname, cache_key, payload, ttl) ==
    LET created_at == clock
        expires_at == created_at + ttl
        row == Row(JsonDumps(payload), IsoFormat(created_at), IsoFormat(expires_at))
    IN  /\ tables' = [tables EXCEPT ![tname] = InsertOrReplace(@, cache_key, row)]
        /\ ghost' = [ghost EXCEPT ![tname] =
                        [k \in DOMAIN @ \cup {cache_key} |->
                            IF k = cache_key
                            THEN Written(payload, created_at, expires_at)
                            ELSE @[k]]]
        /\ op' = [name |-> name, by |-> m, key |-> cache_key, ttl |-> ttl,
                  had |-> cache_key \in DOMAIN tables[tname],
                  count |-> Cardinality(DOMAIN tables[tname]),
                  others |-> [t \in TableNames \ {TableOf[name]} |-> tables[t]]]
        /\ ret' = RetNone
        /\ last_set' = <<tname, cache_key>>
        /\ UNCHANGED <<clock, ttl_hours, kvars, rvars, cvars, avars, pvars>>

\* a mutant of the validity test of get_*: an entry is served up to and at expires_at
IsValidAtExpiry(now, expires_dt) == now <= expires_dt

\* the validity test of get_*: datetime.now() < expires_dt
IsValid(now, expires_dt) == now < expires_dt

\* a mutant of the expired branch of get_*: DELETE FROM <table>, every row
DropExpiredAll(table, cache_key) == DeleteKeys(table, DOMAIN table)

\* a mutant of the expired branch of get_*: the row is left in the table
DropExpiredKeeps(table, cache_key) == table

\* the expired branch of get_*: DELETE FROM <table> WHERE cache_key = ?
DropExpired(table, cache_key) == DeleteKeys(table, {cache_key})

\* what a get_* method returns on a table: the decoded data of the row of the
\* key when there is one and it is still valid, None otherwise
FetchReturn(table, cache_key, now) ==
    IF /\ cache_key \in DOMAIN table
       /\ IsValid(now, FromIsoFormat(table[cache_key].expires_at))
    THEN RetPayload(JsonLoads(table[cache_key].data))
    ELSE RetNone

\* the body the three get_* methods share: SELECT the row of the key; a row
\* that is still valid is decoded and returned, an expired one is deleted.
\* Nothing of the manager m that reads (self) enters the result.
Fetch(m, name, tname, cache_key) ==
    LET table == tables[tname]
        found == cache_key \in DOMAIN table
        now == clock
        valid == FetchReturn(table, cache_key, now) # RetNone
        seen == [name |-> name, by |-> m, key |-> cache_key, before |-> tables,
                 written |-> IF found THEN ghost[tname][cache_key]
                             ELSE Written(<<>>, 0, 0),
                 after_set |-> last_set = <<tname, cache_key>>]
    IN  /\ ret' = FetchReturn(table, cache_key, now)
        /\ tables' = IF found /\ ~valid
                     THEN [tables EXCEPT ![tname] = DropExpired(@, cache_key)]
                     ELSE tables
        /\ ghost' = [ghost EXCEPT ![tname] = Restrict(@, tables'[tname])]
        /\ op' = seen
        /\ last_set' = IF last_set = <<tname, cache_key>> THEN <<>> ELSE last_set
        /\ UNCHANGED <<clock, ttl_hours, kvars, rvars, cvars, avars, pvars>>

ActivitiesKey(start_date, end_date) ==
    GenerateCacheKey("activities",
                     << <<"start_date", start_date>>, <<"end_date", end_date>> >>)

BodyCompositionKey(start_date, end_date) ==
    GenerateCacheKey("body_composition",
                     << <<"start_date", start_date>>, <<"end_date", end_date>> >>)

UserProfileKey(user_id) ==
    GenerateCacheKey("profile", << <<"user_id", user_id>> >>)

get_activities(m, start_date, end_date) ==
    Fetch(m, "get_activities", "activities_cache", ActivitiesKey(start_date, end_date))

set_activities(m, start_date, end_date, activities) ==
    Store(m, "set_activities", "activities_cache", ActivitiesKey(start_date, end_date),
          activities, Hours(ttl_hours[m]))

get_body_composition(m, start_date, end_date) ==
    Fetch(m, "get_body_composition", "body_composition_cache",
          BodyCompositionKey(start_date, end_date))

\* a mutant of set_body_composition: the row goes into the activities table
set_body_composition_into_activities(m, start_date, end_date, composition) ==
    Store(m, "set_body_composition", "activities_cache",
          BodyCompositionKey(start_date, end_date), composition,
          Hours(ttl_hours[m]))

set_body_composition(m, start_date, end_date, composition) ==
    Store(m, "set_body_composition", "body_composition_cache",
          BodyCompositionKey(start_date, end_date), composition,
          Hours(ttl_hours[m]))

get_user_profile(m, user_id) ==
    Fetch(m, "get_user_profile", "user_profile_cache", UserProfileKey(user_id))

\* a mutant of set_user_profile: the profile expires like the other categories
set_user_profile_plain_ttl(m, profile, user_id) ==
    Store(m, "set_user_profile", "user_profile_cache", UserProfileKey(user_id),
          profile, Hours(ttl_hours[m]))

set_user_profile(m, profile, user_id) ==
    Store(m, "set_user_profile", "user_profile_cache", UserProfileKey(user_id),
          profile, Hours(ttl_hours[m] * 7))

\* the WHERE clause of the sweep's DELETE: expires_at < ?
SweepSelects(expires_at, now) == TextLess(expires_at, now)

\* the keys DELETE FROM <table> WHERE expires_at < ? removes
Swept(table, now) == {k \in DOMAIN table : SweepSelects(table[k].expires_at, now)}

\* a mutant of total_deleted: the profiles are left out of the sum
TotalDeletedOmitsProfiles(activities_deleted, composition_deleted, profiles_deleted) ==
    activities_deleted + composition_deleted

\* total_deleted = activities_deleted + composition_deleted + profiles_deleted
TotalDeleted(activities_deleted, composition_deleted, profiles_deleted) ==
    activities_deleted + composition_deleted + profiles_deleted

clear_expired ==
    LET now == IsoFormat(clock)
        activities_deleted == Cardinality(Swept(tables["activities_cache"], now))
        composition_deleted == Cardinality(Swept(tables["body_composition_cache"], now))
        profiles_deleted == Cardinality(Swept(tables["user_profile_cache"], now))
        total_deleted ==
            TotalDeleted(activities_deleted, composition_deleted, profiles_deleted)
    IN  /\ tables' = [t \in TableNames |-> DeleteKeys(tables[t], Swept(tables[t], now))]
        /\ ghost' = [t \in TableNames |-> Restrict(ghost[t], tables'[t])]
        /\ op' = [name |-> "clear_expired", before |-> tables, written |-> ghost,
                  after_sweep |-> op.name = "clear_expired",
                  total_deleted |-> total_deleted]
        /\ ret' = RetNone
        /\ last_set' = <<>>
        /\ UNCHANGED <<clock, ttl_hours, kvars, rvars, cvars, avars, pvars>>

\* SELECT COUNT(*) FROM <table>
CountAll(table) == Cardinality(DOMAIN table)

\* a mutant of clear_all: the profile table is forgotten
WipedButProfiles(t) == IF t = "user_profile_cache" THEN tables[t] ELSE EmptyTable

\* DELETE FROM <table>, for each of the three tables
Wiped(t) == EmptyTable

clear_all ==
    /\ tables' = [t \in TableNames |-> Wiped(t)]
    /\ ghost' = [t \in TableNames |-> Restrict(ghost[t], tables'[t])]
    /\ op' = [name |-> "clear_all", wiped |-> [t \in TableNames |-> CountAll(tables[t])]]
    /\ ret' = RetNone
    /\ last_set' = <<>>
    /\ UNCHANGED <<clock, ttl_hours, kvars, rvars, cvars, avars, pvars>>

\* a mutant of the valid count: expires_at < now is counted
CountValidInverted(table, now) ==
    Cardinality({k \in DOMAIN table : TextLess(table[k].expires_at, now)})

\* SELECT COUNT(*) FROM <table> WHERE expires_at > ?
CountValid(table, now) ==
    Cardinality({k \in DOMAIN table : TextLess(now, table[k].expires_at)})

\* one entry of the dictionary get_cache_stats returns
Counts(total, valid) == [total |-> total, valid |-> valid, expired |-> total - valid]

\* the three tables are counted one after the other, each valid count against
\* its own reading of the clock
get_cache_stats(m, n1, n2, n3) ==
    LET activities_count == CountAll(tables["activities_cache"])
        activities_valid == CountValid(tables["activities_cache"], IsoFormat(n1))
        composition_count == CountAll(tables["body_composition_cache"])
        composition_valid == CountValid(tables["body_composition_cache"], IsoFormat(n2))
        profiles_count == CountAll(tables["user_profile_cache"])
        profiles_valid == CountValid(tables["user_profile_cache"], IsoFormat(n3))
    IN  /\ n1 = clock
        /\ n2 \in {n1, n1 + 1}
        /\ n3 \in {n2, n2 + 1}
        /\ clock' = n3
        /\ ret' = RetStats([activities |-> Counts(activities_count, activities_valid),
                            body_composition |->
                                Counts(composition_count, composition_valid),
                            user_profiles |-> Counts(profiles_count, profiles_valid),
                            ttl_hours |-> ttl_hours[m]])
        /\ op' = [name |-> "get_cache_stats", before |-> tables,
                  now |-> [activities |-> n1, body_composition |-> n2,
                           user_profiles |-> n3]]
        /\ UNCHANGED <<tables, ghost, last_set, ttl_hours, kvars, rvars, cvars, avars, pvars>>

\* the wall clock moves on between two operations; what the last operation
\* saw and returned is no longer at hand
Tick ==
    /\ clock < MaxTime
    /\ clock' = clock + 1
    /\ op' = [name |-> "tick"]
    /\ ret' = RetNone
    /\ UNCHANGED <<ttl_hours, tables, ghost, last_set, kvars, rvars, cvars, avars, pvars>>

\* the key generator is idle while the store is exercised
KIdle == [data_type |-> "profile", params |-> <<>>]

\* no function is decorated and none is invoked while the store is exercised
RIdle ==
    /\ deco = [max_retries |-> 0, initial_delay |-> 0, backoff_factor |-> 0]
    /\ inv = <<>>

\* no GarminClient is constructed while the store is exercised
CIdle ==
    /\ gc = [client |-> "None", session |-> FALSE, use_cache |-> FALSE, cache |-> "None"]
    /\ call = [name |-> "__init__"]

\* run_analysis is not called while the store is exercised
AIdle == batch = [pc |-> "idle"]

\* every get of the store runs from its SELECT to its end in one step
PIdle == pend = <<>>

Init ==
    /\ CacheInit
    /\ kreq = KIdle
    /\ kout = <<>>
    /\ RIdle
    /\ CIdle
    /\ AIdle
    /\ PIdle

Next ==
    \/ \E m \in Managers, r \in DateRanges :
           set_activities(m, r[1], r[2], Payloads[m])
    \/ \E m \in Managers, r \in DateRanges : get_activities(m, r[1], r[2])
    \/ \E m \in Managers, r \in BodyRanges, v \in Compositions :
           set_body_composition(m, r[1], r[2], v)
    \/ \E m \in Managers, r \in BodyRanges : get_body_composition(m, r[1], r[2])
    \/ \E m \in Managers, u \in UserIds, v \in Profiles : set_user_profile(m, v, u)
    \/ \E m \in Managers, u \in UserIds : get_user_profile(m, u)
    \/ clear_expired
    \/ clear_all
    \/ \E m \in Managers, n1, n2, n3 \in 0..MaxTime : get_cache_stats(m, n1, n2, n3)
    \/ Tick

Spec == Init /\ [][Next]_vars

(***************************************************************************)
(* The key generator on its own: a request is drawn, its key is generated, *)
(* and the same request is generated again with its parameters supplied in *)
(* another order.                                                          *)
(***************************************************************************)
\* the tokens parameter values are made of: a date, and the three tokens the
\* generator itself puts between two parameters
KeyAlphabet == {"2024-01-01", "_", "=", "start_date"}

\* the strings of at most n tokens
StrUpTo(n) == UNION {[1..k -> KeyAlphabet] : k \in 0..n}

\* the pairs of values a two-parameter request carries
ValuePairs ==
    {p \in StrUpTo(MaxValLen) \X StrUpTo(MaxValLen) : Len(p[1]) + Len(p[2]) <= MaxValLen}

\* the keyword mappings of the call sites, in each order of supply
DateParams ==
    {<< <<"start_date", p[1]>>, <<"end_date", p[2]>> >> : p \in ValuePairs}
    \cup {<< <<"end_date", p[2]>>, <<"start_date", p[1]>> >> : p \in ValuePairs}

UserParams == {<< <<"user_id", v>> >> : v \in StrUpTo(MaxValLen)}

KeyRequests ==
    [data_type : {"activities", "body_composition"}, params : DateParams]
    \cup [data_type : {"profile"}, params : UserParams]

\* the orders in which the items of params can be supplied
Orderings(params) ==
    {q \in [1..Len(params) -> {params[i] : i \in 1..Len(params)}] :
        \A i, j \in 1..Len(params) : i # j => q[i] # q[j]}

KInit ==
    /\ CacheInit
    /\ kreq \in KeyRequests
    /\ kout = <<>>
    /\ RIdle
    /\ CIdle
    /\ AIdle
    /\ PIdle

KGenerate ==
    /\ kout = <<>>
    /\ kout' = <<[params |-> kreq.params,
                   key |-> GenerateCacheKey(kreq.data_type, kreq.params)]>>
    /\ UNCHANGED <<kreq, svars, rvars, cvars, avars, pvars>>

KReorder ==
    /\ Len(kout) = 1
    /\ \E q \in Orderings(kreq.params) :
           kout' = Append(kout, [params |-> q,
                                 key |-> GenerateCacheKey(kreq.data_type, q)])
    /\ UNCHANGED <<kreq, svars, rvars, cvars, avars, pvars>>

KeyNext == KGenerate \/ KReorder

KeySpec == KInit /\ [][KeyNext]_vars

(***************************************************************************)
(* Properties of the store.  op describes the operation that has just      *)
(* returned at the present clock reading: op.before and op.written are the *)
(* tables and their ghost as that operation found them.                    *)
(***************************************************************************)
\* the entry a get addressed existed and had not expired when the get ran
GetLive ==
    /\ op.key \in DOMAIN op.before[TableOf[op.name]]
    /\ clock < op.written.expires

\* C1: a set followed by a get of the same category and parameters, with no
\* other operation on that key in between and before the entry's expiration,
\* returns a value equal to the payload that was set.
C1_RoundTrip ==
    (op.name \in GetNames /\ op.after_set /\ clock < op.written.expires)
        => ret = RetPayload(op.written.payload)

\* C1 witness: a get that directly followed the set of [1, 2] on its key, by a
\* manager with a positive ttl_hours, returned [1, 2] one tick later
C1_Witness ==
    /\ op.name \in GetNames
    /\ op.after_set
    /\ clock > op.written.created
    /\ ret.kind = "payload"
    /\ ret.value = <<1, 2>>

\* C2: a get returns a payload if and only if an entry exists for its key and
\* now < expires_at, the payload being the one the most recent set on that
\* key wrote; in every other case it returns None.
C2_GetIffLive ==
    op.name \in GetNames =>
        /\ ret.kind \in {"payload", "None"}
        /\ ret.kind = "payload" <=> GetLive
        /\ GetLive => ret.value = op.written.payload

\* C2 witness: a get that did not directly follow a set served [1, 2] from an
\* entry written at an earlier clock reading
C2_Witness ==
    /\ op.name = "get_activities"
    /\ ~op.after_set
    /\ ret.kind = "payload"
    /\ ret.value = <<1, 2>>
    /\ clock > op.written.created

\* C3: a get on an entry whose expiration has passed (now >= expires_at)
\* returns None and deletes that entry and no other, so that the table counts
\* one entry less; on a manager with ttl_hours = 0 a set followed by a get
\* returns None and leaves no entry behind.
C3_LazyExpiration ==
    op.name \in GetNames =>
        LET t == TableOf[op.name]
            found == op.key \in DOMAIN op.before[t]
            passed == found /\ clock >= op.written.expires
            zero_ttl == found /\ op.written.expires = op.written.created
        IN  /\ passed =>
                  /\ ret = RetNone
                  /\ tables[t] = DeleteKeys(op.before[t], {op.key})
                  /\ CountAll(tables[t]) = CountAll(op.before[t]) - 1
            /\ (zero_ttl /\ op.after_set) =>
                  ret = RetNone /\ op.key \notin DOMAIN tables[t]

\* C3 witness: a get directly after a set by the manager with ttl_hours = 0
\* returned None and the table is empty
C3_Witness ==
    /\ op.name = "get_activities"
    /\ op.after_set
    /\ op.key \in DOMAIN op.before["activities_cache"]
    /\ op.written.expires = op.written.created
    /\ ret = RetNone
    /\ tables["activities_cache"] = EmptyTable

\* C4: a set under one category leaves the tables of the other categories as
\* they were, also when the categories are addressed with the same parameters.
C4_NamespaceIsolation ==
    op.name \in SetNames =>
        \A t \in TableNames \ {TableOf[op.name]} : tables[t] = op.others[t]

\* C4 witness: activities and body composition hold entries under the same
\* date range with different payloads, the activities one written last
C4_Witness ==
    /\ op.name = "set_activities"
    /\ \E r \in BodyRanges :
          /\ ActivitiesKey(r[1], r[2]) \in DOMAIN tables["activities_cache"]
          /\ BodyCompositionKey(r[1], r[2]) \in DOMAIN tables["body_composition_cache"]
          /\ op.key = ActivitiesKey(r[1], r[2])
          /\ tables["activities_cache"][ActivitiesKey(r[1], r[2])].data
                # tables["body_composition_cache"][BodyCompositionKey(r[1], r[2])].data

(***************************************************************************)
(* Properties of the key generator, under KeySpec.                         *)
(***************************************************************************)
\* C5: the key generated for a category and a parameter mapping does not
\* depend on the order in which the parameters are supplied.
C5_KeyOrderIrrelevant ==
    Len(kout) = 2 => kout[1].key = kout[2].key

\* C5 witness: the two parameters were supplied in both orders
C5_Witness ==
    /\ Len(kout) = 2
    /\ Len(kreq.params) = 2
    /\ kout[1].params # kout[2].params
    /\ kout[1].params[1][2] # kout[1].params[2][2]
    /\ kout[1].key = kout[2].key

\* the mappings with the names of params, in the same order, and other values
Alternatives(params) ==
    IF Len(params) = 2
    THEN {<< <<params[1][1], p[1]>>, <<params[2][1], p[2]>> >> : p \in ValuePairs}
         \ {params}
    ELSE {<< <<params[1][1], v>> >> : v \in StrUpTo(MaxValLen)} \ {params}

\* no value of the mapping holds the token "_"
NoUnderscore(params) ==
    \A i \in 1..Len(params) : \A j \in 1..Len(params[i][2]) : params[i][2][j] # "_"

\* C6 as stated: for all string parameter values, two requests of the same
\* category that differ in the value of a parameter never get the same key.
C6_Original ==
    Len(kout) = 1 =>
        \A q \in Alternatives(kreq.params) :
            GenerateCacheKey(kreq.data_type, q) # kout[1].key

\* C6 as amended: two requests of the same category whose parameter values
\* hold no "_" and differ in the value of a parameter never get the same key.
C6_KeyUniqueWithoutUnderscore ==
    (Len(kout) = 1 /\ NoUnderscore(kreq.params)) =>
        \A q \in Alternatives(kreq.params) :
            NoUnderscore(q) => GenerateCacheKey(kreq.data_type, q) # kout[1].key

\* C6 witness: a key was generated for a date range of two values without "_"
C6_Witness ==
    /\ Len(kout) = 1
    /\ kreq.data_type = "activities"
    /\ NoUnderscore(kreq.params)
    /\ kreq.params = << <<"start_date", <<"2024-01-01">> >>,
                        <<"end_date", <<"2024-01-01", "=">> >> >>

(***************************************************************************)
(* Properties of the sweep, the wipe and the statistics.                   *)
(***************************************************************************)
\* the rows the operation that has just run removed from table t
Removed(t) == CountAll(op.before[t]) - CountAll(tables[t])

RemovedInAll ==
    Removed("activities_cache") + Removed("body_composition_cache")
        + Removed("user_profile_cache")

\* C7 as stated: clear_expired returns the number of entries it deleted over
\* the three categories, and 0 when it directly follows another clear_expired.
C7_Original ==
    op.name = "clear_expired" =>
        /\ ret.kind = "payload"
        /\ ret.value = RemovedInAll
        /\ op.after_sweep => ret.value = 0

\* C7 as amended: clear_expired returns None; the total it computes and logs
\* is the number of entries it deleted over the three categories, and is 0
\* when it directly follows another clear_expired at the same clock reading.
C7_SweepCount ==
    op.name = "clear_expired" =>
        /\ ret = RetNone
        /\ op.total_deleted = RemovedInAll
        /\ op.after_sweep => op.total_deleted = 0

\* C7 witness: one sweep deleted entries of all three categories
C7_Witness ==
    /\ op.name = "clear_expired"
    /\ \A t \in TableNames : Removed(t) >= 1
    /\ op.total_deleted >= 3

\* C8 as stated: after clear_expired no entry with expires_at <= now remains
\* and every entry with expires_at > now is still there, unchanged.
C8_Original ==
    op.name = "clear_expired" =>
        \A t \in TableNames : \A k \in DOMAIN op.before[t] :
            IF op.written[t][k].expires <= clock
            THEN k \notin DOMAIN tables[t]
            ELSE k \in DOMAIN tables[t] /\ tables[t][k] = op.before[t][k]

\* the keys the operations address in each table
KeysOf ==
    [activities_cache |-> {ActivitiesKey(r[1], r[2]) : r \in DateRanges},
     body_composition_cache |-> {BodyCompositionKey(r[1], r[2]) : r \in BodyRanges},
     user_profile_cache |-> {UserProfileKey(u) : u \in UserIds}]

\* C9: after clear_all every table is empty, whatever the expiration of the
\* entries was: a get of any key returns None and every total is 0.
C9_ClearAllComplete ==
    op.name = "clear_all" =>
        \A t \in TableNames :
            /\ CountAll(tables[t]) = 0
            /\ \A k \in KeysOf[t] : FetchReturn(tables[t], k, clock) = RetNone

\* C9 witness: clear_all ran on a store with entries in all three tables
C9_Witness ==
    /\ op.name = "clear_all"
    /\ \A t \in TableNames : op.wiped[t] >= 1
    /\ op.wiped["activities_cache"] = 2

\* the table behind each entry of the statistics
StatTable ==
    [activities |-> "activities_cache", body_composition |-> "body_composition_cache",
     user_profiles |-> "user_profile_cache"]

\* C10: get_cache_stats changes no entry and reports for every category
\* total = the entries stored, valid = the entries whose expiration lies after
\* the reading of the clock, expired = total - valid, 0 <= valid <= total; the
\* entry just set is counted as valid when it has not expired and as expired
\* when its expiration had passed when it was written.
C10_StatsLive ==
    op.name = "get_cache_stats" =>
        /\ tables = op.before
        /\ \A c \in DOMAIN StatTable :
              LET t == StatTable[c]
                  got == ret.stats[c]
                  unexpired == {k \in DOMAIN tables[t] : op.now[c] < ghost[t][k].expires}
              IN  /\ got.total = Cardinality(DOMAIN tables[t])
                  /\ got.valid = Cardinality(unexpired)
                  /\ got.expired = got.total - got.valid
                  /\ 0 <= got.valid /\ got.valid <= got.total
                  /\ (last_set # <<>> /\ last_set[1] = t) =>
                        LET w == ghost[t][last_set[2]]
                        IN  /\ got.total >= 1
                            /\ op.now[c] < w.expires => got.valid >= 1
                            /\ w.expires <= w.created => got.expired >= 1

\* C10 witness: directly after a set, the statistics count two activities,
\* one valid and one expired
C10_Witness ==
    /\ op.name = "get_cache_stats"
    /\ last_set # <<>>
    /\ last_set[1] = "activities_cache"
    /\ ret.stats["activities"] = Counts(2, 1)

(***************************************************************************)
(* Properties of the timestamps of a row.                                  *)
(***************************************************************************)
\* the datetimes a stored row carries, read back from their ISO text
CreatedAt(row) == FromIsoFormat(row.created_at)

ExpiresAt(row) == FromIsoFormat(row.expires_at)

\* C11 as stated: every stored entry of every category has
\* expires_at > created_at, whatever the ttl_hours of the manager that wrote it.
C11_Original ==
    \A t \in TableNames : \A k \in DOMAIN tables[t] :
        ExpiresAt(tables[t][k]) > CreatedAt(tables[t][k])

\* C11 as amended: with ttl_hours >= 0 every stored entry has
\* expires_at >= created_at; the entry a set has just written has
\* expires_at > created_at when the writer's ttl_hours is positive and
\* expires_at = created_at when it is 0.
C11_ExpiresNotBeforeCreated ==
    /\ \A t \in TableNames : \A k \in DOMAIN tables[t] :
          ExpiresAt(tables[t][k]) >= CreatedAt(tables[t][k])
    /\ op.name \in SetNames =>
          LET row == tables[TableOf[op.name]][op.key]
          IN  /\ op.ttl > 0 => ExpiresAt(row) > CreatedAt(row)
              /\ op.ttl = 0 => ExpiresAt(row) = CreatedAt(row)

\* C11 witness: the manager with ttl_hours = 0 has just written an entry whose
\* expires_at equals its created_at, next to an entry that expires later than
\* it was created
C11_Witness ==
    /\ op.name = "set_activities"
    /\ op.ttl = 0
    /\ ExpiresAt(tables["activities_cache"][op.key])
          = CreatedAt(tables["activities_cache"][op.key])
    /\ \E k \in DOMAIN tables["activities_cache"] :
          ExpiresAt(tables["activities_cache"][k])
              > CreatedAt(tables["activities_cache"][k])

\* the number of ttl_hours an entry of each category lives
TtlFactor ==
    [set_activities |-> 1, set_body_composition |-> 1, set_user_profile |-> 7]

\* C12: a set stores created_at = now and expires_at = created_at + ttl of the
\* writing manager (7 * ttl for a user profile); whether a get by any manager
\* serves an entry depends on the stored expires_at alone, not on the ttl_hours
\* of the manager that reads.
C12_ExpirationFixedAtWrite ==
    /\ op.name \in SetNames =>
          LET row == tables[TableOf[op.name]][op.key]
          IN  /\ row.created_at = IsoFormat(clock)
              /\ ExpiresAt(row)
                    = clock + TtlFactor[op.name] * ttl_hours[op.by] * SecPerHour * UsPerSec
    /\ (op.name \in GetNames /\ op.key \in DOMAIN op.before[TableOf[op.name]]) =>
          LET row == op.before[TableOf[op.name]][op.key]
          IN  ret.kind = "payload" <=> clock < ExpiresAt(row)

\* C12 witness: one tick after the manager with ttl_hours = 1 wrote it, a user
\* profile that expires 7 * ttl later is served to the manager with
\* ttl_hours = 0, whose own ttl has run out for it
C12_Witness ==
    /\ op.name = "get_user_profile"
    /\ op.by = "expired_cache"
    /\ ttl_hours[op.by] = 0
    /\ ret.kind = "payload"
    /\ clock > op.written.created
    /\ op.written.expires = op.written.created + 7 * SecPerHour * UsPerSec
    /\ clock >= op.written.created + Hours(ttl_hours[op.by])

\* C13: a set on a key that already has an entry, valid or expired, replaces
\* it: the table then holds the one entry of that key with the new payload and
\* a created_at and expires_at computed at the later write, and it holds as
\* many entries as before; a set on a new key adds one entry.
C13_Upsert ==
    op.name \in SetNames =>
        LET t == TableOf[op.name]
            new == ghost[t][op.key]
        IN  /\ op.key \in DOMAIN tables[t]
            /\ tables[t][op.key] = Row(JsonDumps(new.payload), IsoFormat(clock),
                                        IsoFormat(clock + op.ttl))
            /\ op.had => CountAll(tables[t]) = op.count
            /\ ~op.had => CountAll(tables[t]) = op.count + 1

\* C13 witness: at a later clock reading the manager with ttl_hours = 0
\* overwrote with [1] an entry of a table of two entries
C13_Witness ==
    /\ op.name = "set_activities"
    /\ op.had
    /\ op.count = 2
    /\ clock > 0
    /\ op.ttl = 0
    /\ ghost["activities_cache"][op.key].payload = <<1>>
    /\ CountAll(tables["activities_cache"]) = 2

(***************************************************************************)
(* The retry decorator of src/src/garmin_client.py (retry_with_backoff).   *)
(* A function is decorated once; every thread that calls the decorated     *)
(* function runs wrapper() with locals of its own (delay, last_exception,  *)
(* attempt).  wrapper() is followed step by step: a call of the wrapped    *)
(* function, which returns or raises, and the sleep between two calls.     *)
(***************************************************************************)
\* largest max_retries a function is decorated with
MaxRetries == 3
\* invocations of the decorated function each thread makes
MaxRuns == 2

\* the threads that call the decorated function
Threads == {"t1", "t2"}

\* (initial_delay, backoff_factor): those of _fetch_activities_from_api and
\* the defaults of retry_with_backoff
Schedules ==
    {[initial_delay |-> 2, backoff_factor |-> 2],
     [initial_delay |-> 1, backoff_factor |-> 2]}

\* the arguments a function can be decorated with
Decorations ==
    {[max_retries |-> n, initial_delay |-> s.initial_delay,
      backoff_factor |-> s.backoff_factor] : n \in 0..MaxRetries, s \in Schedules}

\* b ** e
RECURSIVE Pow(_, _)
Pow(b, e) == IF e = 0 THEN 1 ELSE b * Pow(b, e - 1)

RECURSIVE SumSeq(_)
SumSeq(q) == IF q = <<>> THEN 0 ELSE Head(q) + SumSeq(Tail(q))

\* the exception the n-th call of a run raises: a new object at every raise;
\* matching tells whether it is an instance of one of `exceptions`
RaisedBy(run, n, matching) == [run |-> run, call |-> n, matching |-> matching]

\* the value the n-th call of a run returns
ReturnedBy(run, n) == [run |-> run, call |-> n]

NoResult == [kind |-> "none"]

\* a mutant of the locals wrapper() starts with: the delay the thread's last
\* invocation ended with is taken over
StaleLocals(t) ==
    [attempt |-> 0,
     delay |-> IF t.pc = "idle" THEN deco.initial_delay ELSE t.delay,
     last_exception |-> NoResult]

\* the locals wrapper() starts with: delay = initial_delay,
\* last_exception = None, and attempt = 0 as the loop begins; t is what the
\* caller's last invocation left, of which nothing is used
FreshLocals(t) ==
    [attempt |-> 0, delay |-> deco.initial_delay, last_exception |-> NoResult]

\* a thread that has not called the decorated function yet
IdleThread ==
    [pc |-> "idle", run |-> 0, prior |-> "none", attempt |-> 0, delay |-> 0,
     last_exception |-> NoResult, calls |-> <<>>, slept |-> <<>>,
     result |-> NoResult]

\* a mutant of the loop's range: range(max_retries)
AttemptRangeOneShort == 0..(deco.max_retries - 1)

\* for attempt in range(max_retries + 1)
AttemptRange == 0..deco.max_retries

\* if attempt < max_retries
AttemptsRemain(attempt) == attempt < deco.max_retries

\* a mutant of delay *= backoff_factor: the delay grows by addition
NextDelayAdding(delay) == delay + deco.backoff_factor

\* delay *= backoff_factor
NextDelay(delay) == delay * deco.backoff_factor

\* a mutant of raise last_exception: another exception takes its place
ReraiseAnother(last_exception) ==
    [kind |-> "raise", exc |-> RaisedBy(last_exception.run, 0, TRUE)]

\* raise last_exception
Reraise(last_exception) == [kind |-> "raise", exc |-> last_exception]

\* how an invocation ended: "return", "exhausted" (last_exception raised after
\* the last attempt), "raise" (an exception wrapper() does not catch), "none"
Outcome(result) ==
    IF result.kind # "raise" THEN result.kind
    ELSE IF result.exc.matching THEN "exhausted" ELSE "raise"

\* wrapper() begins, t being what the caller's last invocation left
Started(t) ==
    [pc |-> "call", run |-> t.run + 1, prior |-> Outcome(t.result),
     attempt |-> FreshLocals(t).attempt, delay |-> FreshLocals(t).delay,
     last_exception |-> FreshLocals(t).last_exception,
     calls |-> <<>>, slept |-> <<>>, result |-> NoResult]

\* return func(*args, **kwargs): the wrapped function returns value and
\* wrapper() returns it
Returned(t, value) ==
    [t EXCEPT !.pc = "done",
              !.calls = Append(@, [kind |-> "return", value |-> value]),
              !.result = [kind |-> "return", value |-> value]]

\* a mutant of the end of a pass: the loop is left one pass early
EndOfPassEarly(t) ==
    IF t.attempt + 2 \in AttemptRange
    THEN [t EXCEPT !.pc = "call", !.attempt = @ + 1]
    ELSE [t EXCEPT !.pc = "done", !.result = Reraise(t.last_exception)]

\* the end of one pass of the loop: the next attempt when the range has one,
\* raise last_exception when it is used up
EndOfPass(t) ==
    IF t.attempt + 1 \in AttemptRange
    THEN [t EXCEPT !.pc = "call", !.attempt = @ + 1]
    ELSE [t EXCEPT !.pc = "done", !.result = Reraise(t.last_exception)]

\* a mutant of the except clause: every exception is caught and retried
RaisedAllCaught(t, e) ==
    LET called == Append(t.calls, [kind |-> "raise", exc |-> e])
    IN  IF AttemptsRemain(t.attempt)
        THEN [t EXCEPT !.pc = "sleep", !.calls = called, !.last_exception = e]
        ELSE EndOfPass([t EXCEPT !.calls = called, !.last_exception = e])

\* the wrapped function raises e.  An exception that is not one of
\* `exceptions` leaves wrapper() at once.  One that is becomes last_exception;
\* when attempt < max_retries the sleep follows, otherwise the pass ends.
Raised(t, e) ==
    LET called == Append(t.calls, [kind |-> "raise", exc |-> e])
    IN  IF ~e.matching
        THEN [t EXCEPT !.pc = "done", !.calls = called,
                       !.result = [kind |-> "raise", exc |-> e]]
        ELSE IF AttemptsRemain(t.attempt)
        THEN [t EXCEPT !.pc = "sleep", !.calls = called, !.last_exception = e]
        ELSE EndOfPass([t EXCEPT !.calls = called, !.last_exception = e])

\* time.sleep(delay); delay *= backoff_factor; the pass ends
Slept(t) ==
    EndOfPass([t EXCEPT !.slept = Append(@, t.delay), !.delay = NextDelay(t.delay)])

\* a thread calls the decorated function
Invoke(i) ==
    /\ inv[i].pc \in {"idle", "done"}
    /\ inv[i].run < MaxRuns
    /\ inv' = [inv EXCEPT ![i] = Started(inv[i])]
    /\ UNCHANGED <<deco, svars, kvars, cvars, avars, pvars>>

\* the call of the wrapped function returns
CallReturns(i) ==
    /\ inv[i].pc = "call"
    /\ inv' = [inv EXCEPT ![i] =
                  Returned(inv[i], ReturnedBy(inv[i].run, Len(inv[i].calls) + 1))]
    /\ UNCHANGED <<deco, svars, kvars, cvars, avars, pvars>>

\* the call of the wrapped function raises
CallRaises(i, matching) ==
    /\ inv[i].pc = "call"
    /\ inv' = [inv EXCEPT ![i] =
                  Raised(inv[i], RaisedBy(inv[i].run, Len(inv[i].calls) + 1, matching))]
    /\ UNCHANGED <<deco, svars, kvars, cvars, avars, pvars>>

\* the thread sleeps between two attempts
Sleep(i) ==
    /\ inv[i].pc = "sleep"
    /\ inv' = [inv EXCEPT ![i] = Slept(inv[i])]
    /\ UNCHANGED <<deco, svars, kvars, cvars, avars, pvars>>

RetryInit ==
    /\ CacheInit
    /\ kreq = KIdle
    /\ kout = <<>>
    /\ deco \in Decorations
    /\ inv = [i \in Threads |-> IdleThread]
    /\ CIdle
    /\ AIdle
    /\ PIdle

RetryNext ==
    \/ \E i \in Threads : Invoke(i)
    \/ \E i \in Threads : CallReturns(i)
    \/ \E i \in Threads, matching \in BOOLEAN : CallRaises(i, matching)
    \/ \E i \in Threads : Sleep(i)

RetrySpec == RetryInit /\ [][RetryNext]_vars

(***************************************************************************)
(* Properties of the retry wrapper, under RetrySpec.                       *)
(***************************************************************************)
\* the calls of the wrapped function an invocation has made are all failures
\* with an exception wrapper() catches
AllFailed(calls) ==
    \A j \in 1..Len(calls) : calls[j].kind = "raise" /\ calls[j].exc.matching

\* C14: an operation that raises (an exception of `exceptions`) on its first k
\* calls, k <= max_retries, and then returns is called k + 1 times, wrapper()
\* returns the value of the call that returned, and no call follows it; a
\* failure that leaves retries over never ends the invocation.
C14_RetryUntilSuccess ==
    \A i \in DOMAIN inv :
        LET t == inv[i]
            n == Len(t.calls)
        IN  /\ \A j \in 1..n : t.calls[j].kind = "return" => j = n /\ t.pc = "done"
            /\ (t.pc = "done" /\ t.result.kind = "return") =>
                  /\ n \in 1..(deco.max_retries + 1)
                  /\ AllFailed(SubSeq(t.calls, 1, n - 1))
                  /\ t.calls[n].kind = "return"
                  /\ t.result.value = t.calls[n].value
            /\ (n \in 1..deco.max_retries /\ AllFailed(t.calls)) => t.pc # "done"

\* C14 witness: with max_retries = 3 an operation failed twice and then
\* returned: three calls, and the value of the third is returned
C14_Witness ==
    \E i \in DOMAIN inv :
        /\ deco.max_retries = 3
        /\ inv[i].pc = "done"
        /\ Len(inv[i].calls) = 3
        /\ AllFailed(SubSeq(inv[i].calls, 1, 2))
        /\ inv[i].result = [kind |-> "return", value |-> ReturnedBy(inv[i].run, 3)]

\* C15: an operation that raises (an exception of `exceptions`) on every call
\* is called max_retries + 1 times, and wrapper() then raises the exception of
\* the last call, the same object; it raises a caught exception in no other case.
C15_RetryExhaustion ==
    \A i \in DOMAIN inv :
        LET t == inv[i]
            n == Len(t.calls)
        IN  /\ n <= deco.max_retries + 1
            /\ (n = deco.max_retries + 1 /\ AllFailed(t.calls)) =>
                  /\ t.pc = "done"
                  /\ t.result = [kind |-> "raise", exc |-> t.calls[n].exc]
            /\ (t.pc = "done" /\ Outcome(t.result) = "exhausted") =>
                  /\ n = deco.max_retries + 1
                  /\ AllFailed(t.calls)
                  /\ t.result.exc = t.calls[n].exc

\* C15 witness: with max_retries = 3 the operation failed four times and the
\* exception of the fourth call is raised
C15_Witness ==
    \E i \in DOMAIN inv :
        /\ deco.max_retries = 3
        /\ inv[i].pc = "done"
        /\ Len(inv[i].calls) = 4
        /\ AllFailed(inv[i].calls)
        /\ inv[i].result = [kind |-> "raise", exc |-> RaisedBy(inv[i].run, 4, TRUE)]

\* the delays the first n retries of an invocation are preceded by
Backoff(n) ==
    [k \in 1..n |-> deco.initial_delay * Pow(deco.backoff_factor, k - 1)]

\* C16: the sleep before the k-th retry lasts initial_delay *
\* backoff_factor^(k-1); there is one sleep between a failed call and the call
\* that follows it and none before the first call, after a call that returned
\* or after the last failed call.  With initial_delay = 2, backoff_factor = 2
\* and max_retries = 3 an operation that always fails sleeps 2, 4, 8: 14.
C16_BackoffSchedule ==
    \A i \in DOMAIN inv :
        LET t == inv[i]
            n == Len(t.calls)
        IN  /\ t.slept = Backoff(Len(t.slept))
            /\ Len(t.slept) <= deco.max_retries
            /\ t.pc = "call" => Len(t.slept) = n
            /\ t.pc \in {"sleep", "done"} => Len(t.slept) = n - 1
            /\ (/\ t.pc = "done"
                /\ Outcome(t.result) = "exhausted"
                /\ deco = [max_retries |-> 3, initial_delay |-> 2, backoff_factor |-> 2])
                  => t.slept = <<2, 4, 8>> /\ SumSeq(t.slept) = 14

\* C16 witness: decorated as _fetch_activities_from_api is, an operation that
\* always fails has slept 2, 4 and 8
C16_Witness ==
    \E i \in DOMAIN inv :
        /\ deco = [max_retries |-> 3, initial_delay |-> 2, backoff_factor |-> 2]
        /\ inv[i].pc = "done"
        /\ Outcome(inv[i].result) = "exhausted"
        /\ inv[i].slept = <<2, 4, 8>>

\* C17: wrapper() keeps nothing from one invocation to another: an invocation
\* starts at attempt 0 with delay = initial_delay and all of max_retries
\* retries, whether it follows other invocations of the thread or runs while
\* another thread is in its own; its attempt and delay follow from the sleeps
\* of this invocation alone.
C17_NoSharedRetryState ==
    \A i \in DOMAIN inv :
        LET t == inv[i]
        IN  t.pc # "idle" =>
              /\ t.attempt = Len(t.slept)
              /\ t.delay = deco.initial_delay * Pow(deco.backoff_factor, Len(t.slept))
              /\ (t.pc = "call" /\ t.calls = <<>>) =>
                    /\ t.attempt = 0
                    /\ t.delay = deco.initial_delay
                    /\ t.last_exception = NoResult

\* C17 witness: a thread whose first invocation used up its retries begins its
\* second one at attempt 0 with delay 2 while the other thread is two retries
\* into its own, with delay 8
C17_Witness ==
    /\ deco = [max_retries |-> 3, initial_delay |-> 2, backoff_factor |-> 2]
    /\ inv["t1"].run = 2
    /\ inv["t1"].prior = "exhausted"
    /\ inv["t1"].pc = "call"
    /\ inv["t1"].calls = <<>>
    /\ inv["t1"].attempt = 0
    /\ inv["t1"].delay = 2
    /\ inv["t2"].pc = "call"
    /\ inv["t2"].attempt = 2
    /\ inv["t2"].delay = 8

(***************************************************************************)
(* The Garmin client of src/src/garmin_client.py (class GarminClient): the *)
(* session, the fetches that go through the cache and the retry wrapper,   *)
(* and the fetches that go to the service alone.  An operation is one      *)
(* step.  What the service and the cache's storage do during the step is   *)
(* drawn: the number of remote calls that raise before one returns, the    *)
(* data returned, and whether the storage fails on the read or the write.  *)
(***************************************************************************)
\* @retry_with_backoff(max_retries=3, initial_delay=2.0, backoff_factor=2.0)
FetchDecoration == [max_retries |-> 3, initial_delay |-> 2, backoff_factor |-> 2]

\* the date ranges the client is asked for, after strftime("%Y-%m-%d")
ClientRanges == BodyRanges

\* the ways the cache's storage behaves during one operation: sound, or
\* sqlite3 raising on the read, or on the write
Disks == {"ok", "read_fails", "write_fails"}

\* the remote calls of one operation that raise before one returns: none, one
\* (a retry succeeds), or all that the retry budget allows
RemoteFailures == {0, 1, FetchDecoration.max_retries + 1}

\* what get_activities_by_date returns
RemoteActivities == {<<>>, <<1, 2>>}

\* a list the service returned
ListOf(items) == [shape |-> "list", items |-> items, map |-> <<>>]

\* a dict the service returned: map gives the list under each of its keys
DictOf(map) == [shape |-> "dict", items |-> <<>>, map |-> map]

\* None, or nothing returned
NoValue == [shape |-> "None", items |-> <<>>, map |-> <<>>]

\* what get_body_composition of the service returns: a list, a dict with the
\* measurements under one of its keys, a dict without a known key, an empty
\* dict, or None
RemoteCompositions ==
    {ListOf(<<1>>), ListOf(<<>>), NoValue, DictOf(<<>>),
     DictOf([dateWeightList |-> <<1>>]),
     DictOf([dateWeightList |-> <<>>, totalAverage |-> <<3>>]),
     DictOf([dailyWeightSummaries |-> <<1>>, weightList |-> <<2>>]),
     DictOf([weightList |-> <<2>>, totalAverage |-> <<3>>]),
     DictOf([totalAverage |-> <<3>>])}

\* the keys get_body_composition looks for, in the order it tries them
KnownKeys == <<"dateWeightList", "dailyWeightSummaries", "weightList">>

\* the profile built from get_full_name() and get_unit_system()
RemoteProfile == <<2>>

\* {"name": "Usuario", "unit_system": "metric"}
DefaultProfile == <<0>>

\* what the other fetches get from the service
RemoteRecord == <<3>>

\* what an operation gives its caller
ReturnList(v) == [kind |-> "return", type |-> "list", value |-> v]

ReturnDict(v) == [kind |-> "return", type |-> "dict", value |-> v]

ReturnNone == [kind |-> "return", type |-> "None", value |-> <<>>]

ReturnBool(b) == [kind |-> "return", type |-> "bool", value |-> <<b>>]

RaiseError(e) == [kind |-> "raise", type |-> e, value |-> <<>>]

\* what an operation did: its result, the reads and writes of the cache it
\* began, the remote calls it made, the sleeps of the retry wrapper, and the
\* failure it met ("none", "cache_read", "cache_write", "remote")
Did(name, result, reads, writes, remote, slept, failed) ==
    [name |-> name, result |-> result, reads |-> reads, writes |-> writes,
     remote |-> remote, slept |-> slept, failed |-> failed]

\* GarminClient.__init__: no session; the cache is a CacheManager of the
\* client's own when use_cache is set
ClientConfigs ==
    {[client |-> "None", session |-> FALSE, use_cache |-> TRUE, cache |-> m] :
        m \in Managers}
    \cup {[client |-> "None", session |-> FALSE, use_cache |-> FALSE,
           cache |-> "None"]}

\* wrapper() run to its end on a function whose first `fails` calls raise an
\* Exception and whose next call returns value
RECURSIVE RunWrapper(_, _, _)
RunWrapper(t, fails, value) ==
    IF t.pc = "done" THEN t
    ELSE IF t.pc = "sleep" THEN RunWrapper(Slept(t), fails, value)
    ELSE IF Len(t.calls) < fails
    THEN RunWrapper(Raised(t, RaisedBy(t.run, Len(t.calls) + 1, TRUE)), fails, value)
    ELSE RunWrapper(Returned(t, value), fails, value)

\* a call of a decorated method
Decorated(fails, value) == RunWrapper(Started(IdleThread), fails, value)

\* what the remote part of a fetch came to
Fetched(kind, remote, slept) == [kind |-> kind, remote |-> remote, slept |-> slept]

\* if self.use_cache and self.cache
Caching == gc.use_cache /\ gc.cache # "None"

\* a mutant of the read of the cache: what is cached is never found
CacheReadAlwaysMisses(tname, cache_key, disk) ==
    [raised |-> disk = "read_fails", hit |-> FALSE, value |-> <<>>,
     table |-> tables[tname]]

\* self.cache.get_*(...): raises when the storage fails; otherwise the cached
\* value or None, an expired row being deleted
CacheRead(tname, cache_key, disk) ==
    LET table == tables[tname]
        r == FetchReturn(table, cache_key, clock)
    IN  IF disk = "read_fails"
        THEN [raised |-> TRUE, hit |-> FALSE, value |-> <<>>, table |-> table]
        ELSE [raised |-> FALSE, hit |-> r.kind = "payload",
              value |-> IF r.kind = "payload" THEN r.value ELSE <<>>,
              table |-> IF cache_key \in DOMAIN table /\ r.kind # "payload"
                        THEN DropExpired(table, cache_key) ELSE table]

\* if not self.client
NotConnected == gc.client = "None"

\* a mutant of the handler: the exception goes on to the caller
ExceptReraises(fallback) == RaiseError("Exception")

\* except Exception as e: the error is logged and the fallback returned
Except(fallback) == fallback

\* what each fetch returns without a client
NeutralOf ==
    [get_activities |-> ReturnList(<<>>), get_body_composition |-> ReturnList(<<>>),
     get_user_profile |-> ReturnDict(<<>>), get_gear |-> ReturnList(<<>>),
     get_activity_details |-> ReturnNone, get_activity_splits |-> ReturnNone,
     get_daily_stats |-> ReturnNone, get_heart_rates |-> ReturnNone,
     get_body_battery |-> ReturnNone, get_devices |-> ReturnList(<<>>),
     get_training_readiness |-> ReturnNone, get_sleep_data |-> ReturnNone,
     get_training_status |-> ReturnNone]

\* a mutant of the write-back: it is made whether the fetch returned or not
WritesBackAlways(fetched, value) == Caching

\* the write-back is reached when the remote fetch returned, and made when
\* caching is on and the value is not empty:
\* if self.use_cache and self.cache and activities
WritesBack(fetched, value) == fetched.kind = "return" /\ Caching /\ value # <<>>

\* the body get_activities, get_body_composition and get_user_profile share:
\* the connection test, the read of the cache (outside the try), then inside
\* the try the remote fetch and the write-back of a non-empty value, and the
\* except Exception that returns the fallback
Through(tname, cache_key, disk, fetched, type, value, neutral, fallback, ttl) ==
    LET read == CacheRead(tname, cache_key, disk)
        reads == IF Caching THEN 1 ELSE 0
        table == IF Caching THEN read.table ELSE tables[tname]
        row == Row(JsonDumps(value), IsoFormat(clock), IsoFormat(clock + ttl))
        returned == [kind |-> "return", type |-> type, value |-> value]
    IN  IF NotConnected
        THEN [did |-> Did("", neutral, 0, 0, 0, <<>>, "none"),
              table |-> tables[tname], wrote |-> FALSE]
        ELSE IF Caching /\ read.raised
        THEN [did |-> Did("", RaiseError("sqlite3.Error"), 1, 0, 0, <<>>, "cache_read"),
              table |-> tables[tname], wrote |-> FALSE]
        ELSE IF Caching /\ read.hit
        THEN [did |-> Did("", [kind |-> "return", type |-> type, value |-> read.value],
                          1, 0, 0, <<>>, "none"),
              table |-> table, wrote |-> FALSE]
        ELSE LET attempted == WritesBack(fetched, value)
                 stored == attempted /\ disk # "write_fails"
                 failed == IF fetched.kind = "raise" THEN "remote"
                           ELSE IF attempted /\ ~stored THEN "cache_write" ELSE "none"
             IN  [did |-> Did("", IF failed = "none" THEN returned ELSE Except(fallback),
                              reads, IF attempted THEN 1 ELSE 0, fetched.remote,
                              fetched.slept, failed),
                  table |-> IF stored THEN InsertOrReplace(table, cache_key, row)
                            ELSE table,
                  wrote |-> stored]

\* the step of an operation that went through the cache; with what the
\* operation did go the table it addresses, the key, the rows the table held
\* when the operation began, and what the service returned to it if it did
ClientStep(name, tname, cache_key, got, value, ttl, out) ==
    /\ call' = [name |-> name, result |-> out.did.result, reads |-> out.did.reads,
                writes |-> out.did.writes, remote |-> out.did.remote,
                slept |-> out.did.slept, failed |-> out.did.failed,
                table |-> tname, key |-> cache_key, before |-> tables[tname],
                got |-> IF out.did.remote > 0 /\ out.did.failed # "remote"
                        THEN got ELSE NoValue]
    /\ tables' = [tables EXCEPT ![tname] = out.table]
    /\ ghost' = [ghost EXCEPT ![tname] =
                    [k \in DOMAIN out.table |->
                        IF out.wrote /\ k = cache_key
                        THEN Written(value, clock, clock + ttl) ELSE @[k]]]
    /\ UNCHANGED <<gc, clock, ttl_hours, op, ret, last_set, kvars, rvars, avars, pvars>>

\* a mutant of the ttl of the client's cache: the entry expires as it is written
ClientTtlNone == Hours(0)

\* the ttl of the client's cache, in ticks
ClientTtl == IF Caching THEN Hours(ttl_hours[gc.cache]) ELSE 0

\* GarminClient.connect: Garmin(email, password) raises and self.client stays
\* as it was; or self.client is assigned and login() raises; or login() succeeds
connect(outcome) ==
    /\ gc' = [gc EXCEPT !.client = IF outcome = "constructor_raises" THEN @ ELSE "Garmin",
                        !.session = IF outcome = "constructor_raises" THEN @
                                    ELSE outcome = "ok"]
    /\ call' = Did("connect", ReturnBool(outcome = "ok"), 0, 0, 0, <<>>, "none")
    /\ UNCHANGED <<svars, kvars, rvars, avars, pvars>>

\* GarminClient.get_activities
client_get_activities(r, disk, fails, activities) ==
    LET w == Decorated(fails, activities)
        fetched == Fetched(w.result.kind, Len(w.calls), w.slept)
        cache_key == ActivitiesKey(r[1], r[2])
    IN  ClientStep("get_activities", "activities_cache", cache_key, ListOf(activities),
                   activities, ClientTtl,
                   Through("activities_cache", cache_key, disk, fetched, "list",
                           activities, NeutralOf["get_activities"], ReturnList(<<>>),
                           ClientTtl))

\* the one-element list get_body_composition makes of a dict: [composition]
WholeDict(composition) == <<9>>

\* the known keys the dict has, in the order get_body_composition tries them
KnownIn(map) == SelectSeq(KnownKeys, LAMBDA key : key \in DOMAIN map)

\* the for loop over the known keys: the value under the first that is in the
\* dict, [] when none is
UnderFirstKnown(map) ==
    IF KnownIn(map) = <<>> THEN <<>> ELSE map[Head(KnownIn(map))]

\* if not measurements: measurements = [composition]
OrWholeDict(measurements, composition) ==
    IF measurements = <<>> THEN WholeDict(composition) ELSE measurements

\* if composition: the truth value of what the service returned
Truthy(composition) ==
    \/ composition.shape = "list" /\ composition.items # <<>>
    \/ composition.shape = "dict" /\ DOMAIN composition.map # {}

\* the measurements get_body_composition takes from what the service returned
Measurements(composition) ==
    IF ~Truthy(composition) THEN <<>>
    ELSE IF composition.shape = "dict"
    THEN OrWholeDict(UnderFirstKnown(composition.map), composition)
    ELSE IF composition.shape = "list" THEN composition.items
    ELSE <<>>

\* GarminClient.get_body_composition
client_get_body_composition(r, disk, fails, composition) ==
    LET w == Decorated(fails, composition)
        fetched == Fetched(w.result.kind, Len(w.calls), w.slept)
        cache_key == BodyCompositionKey(r[1], r[2])
        measurements == Measurements(composition)
    IN  ClientStep("get_body_composition", "body_composition_cache", cache_key,
                   composition, measurements, ClientTtl,
                   Through("body_composition_cache", cache_key, disk, fetched, "list",
                           measurements, NeutralOf["get_body_composition"],
                           ReturnList(<<>>), ClientTtl))

\* the remote part of get_user_profile: get_full_name() and get_unit_system(),
\* not retried
ProfileFetched(remote_ok) ==
    IF remote_ok THEN Fetched("return", 2, <<>>) ELSE Fetched("raise", 1, <<>>)

\* GarminClient.get_user_profile
client_get_user_profile(disk, remote_ok) ==
    LET cache_key == UserProfileKey(<<"default">>)
    IN  ClientStep("get_user_profile", "user_profile_cache", cache_key,
                   DictOf([name |-> RemoteProfile, unit_system |-> RemoteProfile]),
                   RemoteProfile, ClientTtl * 7,
                   Through("user_profile_cache", cache_key, disk,
                           ProfileFetched(remote_ok), "dict", RemoteProfile,
                           NeutralOf["get_user_profile"], ReturnDict(DefaultProfile),
                           ClientTtl * 7))

\* the fetches that go to the service alone, undecorated
SimpleFetches ==
    {"get_activity_details", "get_activity_splits", "get_daily_stats", "get_heart_rates",
     "get_body_battery", "get_devices"}

\* those decorated with @retry_with_backoff()
WellnessFetches == {"get_training_readiness", "get_sleep_data", "get_training_status"}

\* the body of a fetch that goes to the service alone: the connection test,
\* one remote call in a try, and the except Exception that returns neutral
Direct(neutral, got, remote_ok) ==
    IF NotConnected THEN [result |-> neutral, remote |-> 0, failed |-> "none"]
    ELSE IF remote_ok THEN [result |-> got, remote |-> 1, failed |-> "none"]
    ELSE [result |-> neutral, remote |-> 1, failed |-> "remote"]

\* get_activity_details, get_activity_splits, get_daily_stats, get_heart_rates,
\* get_body_battery, get_devices
simple_fetch(name, remote_ok) ==
    LET got == IF name = "get_devices" THEN ReturnList(RemoteRecord)
               ELSE ReturnDict(RemoteRecord)
        d == Direct(NeutralOf[name], got, remote_ok)
    IN  /\ call' = Did(name, d.result, 0, 0, d.remote, <<>>, d.failed)
        /\ UNCHANGED <<gc, svars, kvars, rvars, avars, pvars>>

\* get_training_readiness, get_sleep_data, get_training_status: the same body
\* inside wrapper(), to which it always returns
wellness_fetch(name, remote_ok) ==
    LET d == Direct(NeutralOf[name], ReturnDict(RemoteRecord), remote_ok)
        w == Decorated(0, d.result)
    IN  /\ call' = Did(name, w.result.value, 0, 0, d.remote * Len(w.calls), w.slept,
                       d.failed)
        /\ UNCHANGED <<gc, svars, kvars, rvars, avars, pvars>>

\* GarminClient.get_gear: the connection test, then get_user_profile(), whose
\* profile has no 'id', so that [] is returned; an exception of
\* get_user_profile() is caught and [] returned
client_get_gear(disk, remote_ok) ==
    LET cache_key == UserProfileKey(<<"default">>)
        out == Through("user_profile_cache", cache_key, disk, ProfileFetched(remote_ok),
                       "dict", RemoteProfile, NeutralOf["get_gear"],
                       ReturnDict(DefaultProfile), ClientTtl * 7)
    IN  ClientStep("get_gear", "user_profile_cache", cache_key,
                   DictOf([name |-> RemoteProfile, unit_system |-> RemoteProfile]),
                   RemoteProfile, ClientTtl * 7, [out EXCEPT !.did.result = ReturnList(<<>>)])

ClientInit ==
    /\ CacheInit
    /\ kreq = KIdle
    /\ kout = <<>>
    /\ deco = FetchDecoration
    /\ inv = <<>>
    /\ gc \in ClientConfigs
    /\ call = [name |-> "__init__"]
    /\ AIdle
    /\ PIdle

ClientNext ==
    \/ \E outcome \in {"constructor_raises", "login_raises", "ok"} : connect(outcome)
    \/ \E r \in ClientRanges, disk \in Disks, fails \in RemoteFailures,
          activities \in RemoteActivities :
           client_get_activities(r, disk, fails, activities)
    \/ \E r \in ClientRanges, disk \in Disks, fails \in RemoteFailures,
          composition \in RemoteCompositions :
           client_get_body_composition(r, disk, fails, composition)
    \/ \E disk \in Disks, remote_ok \in BOOLEAN : client_get_user_profile(disk, remote_ok)
    \/ \E name \in SimpleFetches, remote_ok \in BOOLEAN : simple_fetch(name, remote_ok)
    \/ \E name \in WellnessFetches, remote_ok \in BOOLEAN : wellness_fetch(name, remote_ok)
    \/ \E disk \in Disks, remote_ok \in BOOLEAN : client_get_gear(disk, remote_ok)

ClientSpec == ClientInit /\ [][ClientNext]_vars

(***************************************************************************)
(* Claims about the Garmin client.                                         *)
(***************************************************************************)
\* the fetch operations that go through the cache under their own name
CachedFetches == {"get_activities", "get_body_composition", "get_user_profile"}

\* C18 (as stated): when the read of the cache or the write-back to the
\* cache fails during get_activities, get_body_composition or
\* get_user_profile, the operation began that access once only and the
\* failure reaches the caller as an exception, never as an empty or neutral
\* result.
C18_Original ==
    (call.name \in CachedFetches /\ call.failed \in {"cache_read", "cache_write"})
        => /\ call.result.kind = "raise"
           /\ call.reads <= 1
           /\ call.writes <= 1

\* the fetch operations whose remote call is decorated with retry_with_backoff
\* and raises out of it
RetriedFetches == {"get_activities", "get_body_composition"}

\* C19 (as stated): when the remote call behind get_activities or
\* get_body_composition still raises after the retry budget is exhausted, the
\* operation raises that failure to its caller.
C19_Original ==
    (call.name \in RetriedFetches /\ call.failed = "remote")
        => call.result.kind = "raise"

\* C19 (amended): when the remote call behind get_activities or
\* get_body_composition still raises after the retry budget is exhausted
\* (max_retries + 1 calls, with the sleeps of the schedule between them), the
\* operation does not raise: it returns [] and writes nothing to the cache,
\* which is what it returns for a fetch that found no data.  The only
\* exception these operations raise is a failure of the read of the cache.
C19_TerminalFailureAbsorbed ==
    call.name \in RetriedFetches
        => /\ call.failed = "remote"
                => /\ call.result = ReturnList(<<>>)
                   /\ call.remote = deco.max_retries + 1
                   /\ call.slept = Backoff(deco.max_retries)
                   /\ call.writes = 0
           /\ call.result.kind = "raise" => call.failed = "cache_read"

\* C19 witness: get_activities of a connected client called the service four
\* times, slept 2, 4 and 8 in between, and returned [].
C19_Witness ==
    /\ call.name = "get_activities"
    /\ gc.session
    /\ call.failed = "remote"
    /\ call.remote = 4
    /\ call.slept = <<2, 4, 8>>
    /\ call.result = ReturnList(<<>>)

\* every data-fetch operation of the client
FetchNames == DOMAIN NeutralOf

\* C20 (as stated): while no session is established (connect was never
\* called, or connect failed), every data-fetch operation returns its neutral
\* result without raising, calls the service not at all, neither reads nor
\* writes the cache and does not sleep.
C20_Original ==
    (call.name \in FetchNames /\ ~gc.session)
        => /\ call.result = NeutralOf[call.name]
           /\ call.remote = 0
           /\ call.reads = 0
           /\ call.writes = 0
           /\ call.slept = <<>>

\* what the cache held for the key of the last operation when it began
CachedBefore == FetchReturn(call.before, call.key, clock)

\* C21: with caching enabled and a session established, a fetch whose key has
\* a valid entry returns the payload of that entry and makes no remote call;
\* a fetch makes a remote call only when it was connected and its key had no
\* entry or an expired one (or caching is off).
C21_HitShortCircuits ==
    (call.name \in CachedFetches /\ gc.session)
        => /\ (Caching /\ CachedBefore.kind = "payload" /\ call.failed # "cache_read")
                => /\ call.result.kind = "return"
                   /\ call.result.value = CachedBefore.value
                   /\ call.remote = 0
                   /\ call.slept = <<>>
                   /\ tables = [tables EXCEPT ![call.table] = call.before]
           /\ call.remote > 0 => (~Caching \/ CachedBefore = RetNone)

\* C21 witness: get_activities of a connected client with a valid entry
\* returned its payload <<1, 2>> without a remote call.
C21_Witness ==
    /\ call.name = "get_activities"
    /\ gc.session
    /\ Caching
    /\ CachedBefore = RetPayload(<<1, 2>>)
    /\ call.result = ReturnList(<<1, 2>>)
    /\ call.reads = 1
    /\ call.remote = 0

\* the set_* method behind the write-back of each fetch
SetterOf ==
    [get_activities |-> "set_activities",
     get_body_composition |-> "set_body_composition",
     get_user_profile |-> "set_user_profile"]

\* the last operation, with caching enabled, found no valid entry for its key
\* and then fetched from the service with success
MissThenFetched ==
    /\ call.name \in CachedFetches
    /\ Caching
    /\ CachedBefore = RetNone
    /\ call.remote > 0
    /\ call.failed \in {"none", "cache_write"}

\* the entry of the key of the last operation holds payload and was written
\* at this reading of the clock with the expiration of its category
FreshEntry(payload) ==
    /\ call.key \in DOMAIN tables[call.table]
    /\ LET row == tables[call.table][call.key]
       IN  /\ JsonLoads(row.data) = payload
           /\ CreatedAt(row) = clock
           /\ ExpiresAt(row) = clock + Hours(ttl_hours[gc.cache])
                                           * TtlFactor[SetterOf[call.name]]

\* C22 (as stated): with caching enabled, after a miss or an expired entry
\* followed by a successful remote fetch, an entry for the key exists that
\* holds the fetched result with a fresh expiration, whatever the result was
\* (taken here with the storage sound, so that the write-back cannot fail).
C22_Original ==
    (MissThenFetched /\ call.failed = "none") => FreshEntry(call.result.value)

\* C22 (amended): with caching enabled, after a miss or an expired entry
\* followed by a successful remote fetch, the result is written back only
\* when it is not empty: then, the write succeeding, the entry of the key
\* holds the result (for body composition the measurements decoded from it)
\* with created_at = now and expires_at = now + ttl (7 * ttl for a profile).
\* An empty result is returned and not written, and a write that fails leaves
\* no entry either: in both cases the key has no entry afterwards, and the
\* next identical fetch calls the service again.
C22_WriteBackOfNonEmpty ==
    MissThenFetched
        => /\ (call.failed = "none" /\ call.result.value # <<>>)
                => /\ call.writes = 1
                   /\ FreshEntry(call.result.value)
           /\ (call.failed = "none" /\ call.result.value = <<>>)
                => /\ call.writes = 0
                   /\ call.key \notin DOMAIN tables[call.table]
           /\ call.failed = "cache_write"
                => /\ call.writes = 1
                   /\ call.key \notin DOMAIN tables[call.table]

\* C22 witness: get_activities found no valid entry, fetched <<1, 2>> from the
\* service and wrote it back with the ttl of one hour; a get of the cache now
\* returns it.
C22_Witness ==
    /\ MissThenFetched
    /\ call.name = "get_activities"
    /\ call.result = ReturnList(<<1, 2>>)
    /\ gc.cache = "valid_cache"
    /\ call.writes = 1
    /\ FreshEntry(<<1, 2>>)
    /\ FetchReturn(tables[call.table], call.key, clock) = RetPayload(<<1, 2>>)

\* C23 (as stated): get_body_composition returns the remote sequence
\* unchanged when the service returns a sequence; the sequence under the
\* first of dateWeightList, dailyWeightSummaries, weightList that is present
\* when the service returns a mapping with a known key; and the whole mapping
\* as a single-element sequence if and only if the service returns a
\* non-empty mapping in which no known key is found.
C23_Original ==
    (call.name = "get_body_composition" /\ call.remote > 0 /\ call.failed = "none")
        => LET composition == call.got
               returned == call.result.value
           IN  /\ composition.shape = "list" => returned = composition.items
               /\ (composition.shape = "dict" /\ KnownIn(composition.map) # <<>>)
                    => returned = composition.map[Head(KnownIn(composition.map))]
               /\ returned = WholeDict(composition)
                    <=> /\ composition.shape = "dict"
                        /\ DOMAIN composition.map # {}
                        /\ KnownIn(composition.map) = <<>>

(***************************************************************************)
(* The orchestrator of training_analyzer.py: TrainingAnalyzer.run_analysis *)
(* and main.  A step is one numbered stage of run_analysis; what the       *)
(* client, the plan file and the LLM give it is drawn.                     *)
(***************************************************************************)
\* the most activities a run fetches
MaxActivities == 2

\* the names that are bound where run_analysis calls analyze_training: its
\* local variables (the module binds none of the names of the arguments)
BoundNames ==
    {"activities", "activities_details", "user_profile", "body_composition",
     "training_plan"}

\* the names the argument expressions of that call read, in order
AnalyzeArguments ==
    <<"activities", "activities_details", "user_profile", "body_composition",
      "training_plan", "wellness_data">>

\* the keywords of that call
AnalyzeKeywords == {"wellness_data"}

\* the parameters of LLMAnalyzer.analyze_training
AnalyzeParameters ==
    {"activities", "activities_details", "user_profile", "body_composition",
     "training_plan"}

\* nothing returned or raised yet
NoOutcome == [kind |-> "none", type |-> "none", value |-> <<>>]

\* run_analysis at its first statement
BatchStart ==
    [pc |-> "validate", valid |-> FALSE, connected |-> FALSE, activities |-> 0,
     details |-> <<>>, profile |-> <<>>, body |-> <<>>, plan |-> FALSE, llm |-> FALSE,
     result |-> NoOutcome]

\* return value: run_analysis ends
Ends(b, value) == [b EXCEPT !.pc = "done", !.result = value]

\* if not self.config.validate(): return False
ra_validate(valid) ==
    /\ batch.pc = "validate"
    /\ batch' = IF valid THEN [batch EXCEPT !.pc = "connect", !.valid = TRUE]
                ELSE Ends(batch, ReturnBool(FALSE))
    /\ UNCHANGED <<svars, kvars, rvars, cvars, pvars>>

\* 1. if not self.garmin_client.connect(): return False
ra_connect(connected) ==
    /\ batch.pc = "connect"
    /\ batch' = IF connected THEN [batch EXCEPT !.pc = "activities", !.connected = TRUE]
                ELSE Ends(batch, ReturnBool(FALSE))
    /\ UNCHANGED <<svars, kvars, rvars, cvars, pvars>>

\* 2., 3. raw_activities = get_activities(...); if not raw_activities: return False
ra_get_activities(n) ==
    /\ batch.pc = "activities"
    /\ batch' = IF n > 0 THEN [batch EXCEPT !.pc = "details", !.activities = n]
                ELSE Ends(batch, ReturnBool(FALSE))
    /\ UNCHANGED <<svars, kvars, rvars, cvars, pvars>>

\* 4. one pass of the loop: activities_details.append(details if details else {})
ra_get_details(details) ==
    /\ batch.pc = "details"
    /\ Len(batch.details) < batch.activities
    /\ batch' = [batch EXCEPT !.details = Append(@, details)]
    /\ UNCHANGED <<svars, kvars, rvars, cvars, pvars>>

\* 5. user_profile = self.garmin_client.get_user_profile(), after the loop
ra_get_user_profile(profile) ==
    /\ batch.pc = "details"
    /\ Len(batch.details) = batch.activities
    /\ batch' = [batch EXCEPT !.pc = "body", !.profile = profile]
    /\ UNCHANGED <<svars, kvars, rvars, cvars, pvars>>

\* 6. body_composition = self.garmin_client.get_body_composition(...)
ra_get_body_composition(body) ==
    /\ batch.pc = "body"
    /\ batch' = [batch EXCEPT !.pc = "plan", !.body = body]
    /\ UNCHANGED <<svars, kvars, rvars, cvars, pvars>>

\* 7. training_plan = self.tp_manager.load_training_plan(): a plan or None
ra_load_training_plan(plan) ==
    /\ batch.pc = "plan"
    /\ batch' = [batch EXCEPT !.pc = "analyze", !.plan = plan]
    /\ UNCHANGED <<svars, kvars, rvars, cvars, pvars>>

\* 8. to 10. the call of analyze_training and what follows it: a name that is
\* not bound raises NameError while the arguments are evaluated; a keyword
\* that is no parameter raises TypeError; otherwise None of the LLM returns
\* False, and an analysis is saved and displayed and True returned
CallOutcome(analysis) ==
    IF \E i \in DOMAIN AnalyzeArguments : AnalyzeArguments[i] \notin BoundNames
    THEN RaiseError("NameError")
    ELSE IF ~(AnalyzeKeywords \subseteq AnalyzeParameters)
    THEN RaiseError("TypeError")
    ELSE IF analysis THEN ReturnBool(TRUE) ELSE ReturnBool(FALSE)

\* 8. analysis = self.llm_analyzer.analyze_training(...) and the rest of
\* run_analysis; llm tells whether the LLM would give an analysis
ra_analyze(llm) ==
    /\ batch.pc = "analyze"
    /\ batch' = Ends([batch EXCEPT !.llm = llm], CallOutcome(llm))
    /\ UNCHANGED <<svars, kvars, rvars, cvars, pvars>>

\* main: return 0 if success else 1; an exception that leaves main ends the
\* interpreter with status 1
ExitStatus(result) ==
    IF result.kind = "raise" THEN 1
    ELSE IF result.value = <<TRUE>> THEN 0 ELSE 1

AnalyzerInit ==
    /\ CacheInit
    /\ kreq = KIdle
    /\ kout = <<>>
    /\ RIdle
    /\ CIdle
    /\ PIdle
    /\ batch = BatchStart

AnalyzerNext ==
    \/ \E valid \in BOOLEAN : ra_validate(valid)
    \/ \E connected \in BOOLEAN : ra_connect(connected)
    \/ \E n \in 0..MaxActivities : ra_get_activities(n)
    \/ \E details \in {<<>>, RemoteRecord} : ra_get_details(details)
    \/ \E profile \in {RemoteProfile, DefaultProfile} : ra_get_user_profile(profile)
    \/ \E body \in {<<>>, <<1>>} : ra_get_body_composition(body)
    \/ \E plan \in BOOLEAN : ra_load_training_plan(plan)
    \/ \E llm \in BOOLEAN : ra_analyze(llm)

AnalyzerSpec == AnalyzerInit /\ [][AnalyzerNext]_vars

\* the conditions under which the run is to succeed
RunShouldSucceed ==
    /\ batch.pc = "done"
    /\ batch.valid
    /\ batch.connected
    /\ batch.activities >= 1
    /\ batch.llm

\* C24 (as stated): when the configuration is valid, the connection
\* succeeds, at least one activity is fetched and the LLM returns an
\* analysis, run_analysis returns True and the exit status is 0, also when
\* the body composition is empty; it returns False (status not 0) only for a
\* connection failure, no activities or an LLM failure.
C24_Original ==
    /\ RunShouldSucceed
        => /\ batch.result = ReturnBool(TRUE)
           /\ ExitStatus(batch.result) = 0
    /\ (batch.pc = "done" /\ batch.valid /\ batch.result # ReturnBool(TRUE))
        => /\ batch.result = ReturnBool(FALSE)
           /\ ~batch.connected \/ batch.activities = 0 \/ ~batch.llm

\* C25 (as stated): when the remote call behind get_sleep_data,
\* get_training_readiness or get_training_status raises, it is attempted
\* again with a sleep before each retry, and the failure reaches the caller
\* only after the retry budget is exhausted, that is after max_retries + 1
\* remote calls (max_retries = 3 by default, as in the other decoration).
C25_Original ==
    (call.name \in WellnessFetches /\ call.failed = "remote")
        => /\ call.remote = deco.max_retries + 1
           /\ Len(call.slept) = deco.max_retries

(***************************************************************************)
(* The retry wrapper as a state machine, and its termination.  Under       *)
(* RetryLiveSpec a call of the wrapped function that has begun returns or  *)
(* raises, and a sleep that has begun ends.                                *)
(***************************************************************************)
\* func(*args, **kwargs) comes back, with a value or with an exception
CallEnds(i) == CallReturns(i) \/ \E matching \in BOOLEAN : CallRaises(i, matching)

RetryLiveSpec ==
    /\ RetrySpec
    /\ \A i \in Threads : WF_vars(CallEnds(i)) /\ WF_vars(Sleep(i))

\* ATTEMPTING(n): the invocation is in pass n of the loop, calling or asleep
Attempting(t) == t.pc \in {"call", "sleep"}

\* what holds of an invocation in every state: n stays within 0..max_retries;
\* pass n is reached after n failed calls and n sleeps; an invocation that
\* has ended has one outcome, and it is FAILED (last_exception re-raised)
\* only from pass max_retries, after max_retries + 1 failed calls
RetryStates(t) ==
    /\ t.attempt \in 0..deco.max_retries
    /\ Attempting(t) => /\ t.result = NoResult
                        /\ AllFailed(t.calls)
                        /\ Len(t.slept) = t.attempt
    /\ t.pc = "call" => Len(t.calls) = t.attempt
    /\ t.pc = "sleep" => Len(t.calls) = t.attempt + 1 /\ t.attempt < deco.max_retries
    /\ t.pc = "done"
        => /\ Outcome(t.result) \in {"return", "exhausted", "raise"}
           /\ Outcome(t.result) = "return" <=> t.calls[Len(t.calls)].kind = "return"
           /\ Outcome(t.result) = "exhausted"
                => /\ t.attempt = deco.max_retries
                   /\ Len(t.calls) = deco.max_retries + 1
                   /\ AllFailed(t.calls)

\* what holds of every step of an invocation: n moves to n + 1 only, by the
\* end of a sleep that followed a failed call with n < max_retries; it goes
\* back to 0 only as a new invocation begins; an invocation that has ended
\* stays as it ended
RetryStep(t, u) ==
    /\ u.run = t.run
        => /\ u.attempt \in {t.attempt, t.attempt + 1}
           /\ u.attempt = t.attempt + 1
                => /\ t.pc = "sleep"
                   /\ t.attempt < deco.max_retries
                   /\ t.calls[Len(t.calls)].kind = "raise"
                   /\ Len(u.slept) = Len(t.slept) + 1
                   /\ u.pc = "call"
           /\ t.pc = "done" => u = t
    /\ u.run # t.run => u.run = t.run + 1 /\ t.pc \in {"idle", "done"} /\ u.attempt = 0

\* C26: provided every call of the wrapped operation returns or raises (an
\* exception of `exceptions`; another one ends the invocation at once), every
\* invocation of wrapper() eventually ends, as SUCCESS (it returns) or as
\* FAILED (it re-raises); the attempt index n only moves 0, 1, 2, ... and
\* never exceeds max_retries; n becomes n + 1 only after a failed call with
\* n < max_retries and one sleep; FAILED is reached only from n = max_retries.
C26_RetryStateMachine ==
    /\ [](\A i \in Threads : RetryStates(inv[i]))
    /\ [][\A i \in Threads : RetryStep(inv[i], inv'[i])]_vars
    /\ \A i \in Threads : Attempting(inv[i]) ~> (inv[i].pc = "done")

\* C26 witness: with max_retries = 3 one invocation failed from pass 3 after
\* four failed calls and three sleeps, and another returned in pass 1.
C26_Witness ==
    /\ deco.max_retries = 3
    /\ inv["t1"].pc = "done"
    /\ Outcome(inv["t1"].result) = "exhausted"
    /\ inv["t1"].attempt = 3
    /\ Len(inv["t1"].calls) = 4
    /\ Len(inv["t1"].slept) = 3
    /\ inv["t2"].pc = "done"
    /\ Outcome(inv["t2"].result) = "return"
    /\ inv["t2"].attempt = 1

\* C27: when the wrapped operation raises an exception that is not one of
\* `exceptions`, wrapper() propagates that exception at once: the call that
\* raised it is the last call of the invocation, no sleep follows it, and
\* the invocation ends with it whatever attempts remain.
C27_OnlyRetryableRetried ==
    \A i \in Threads :
        LET t == inv[i]
        IN  \A j \in 1..Len(t.calls) :
                (t.calls[j].kind = "raise" /\ ~t.calls[j].exc.matching)
                    => /\ j = Len(t.calls)
                       /\ t.pc = "done"
                       /\ t.result = [kind |-> "raise", exc |-> t.calls[j].exc]
                       /\ Len(t.slept) = j - 1
                       /\ t.attempt = j - 1

\* C27 witness: with max_retries = 3 the first call of an invocation raised
\* an exception outside `exceptions`, and the invocation ended with it after
\* that one call and no sleep.
C27_Witness ==
    /\ deco.max_retries = 3
    /\ inv["t1"].pc = "done"
    /\ Outcome(inv["t1"].result) = "raise"
    /\ Len(inv["t1"].calls) = 1
    /\ inv["t1"].attempt = 0
    /\ inv["t1"].slept = <<>>

(***************************************************************************)
(* The frame of a get of the store, under Spec.                            *)
(***************************************************************************)
\* the entry a get addressed was in its table when the get began, and its
\* stored expiration had been reached
AddressedExpired ==
    /\ op.key \in DOMAIN op.before[TableOf[op.name]]
    /\ ~IsValid(clock, ExpiresAt(op.before[TableOf[op.name]][op.key]))

\* C28: a get changes the store at most by deleting the one entry it
\* addresses, and only when that entry is expired.  A get on a valid entry or
\* on a missing key leaves every entry of every category as it was (data,
\* created_at, expires_at); a get on a valid entry returns its payload, and a
\* get of the same key at any later reading before its expiration would
\* return that payload again.
C28_GetFrame ==
    op.name \in GetNames =>
        LET t == TableOf[op.name]
            found == op.key \in DOMAIN op.before[t]
        IN  /\ \A u \in TableNames \ {t} : tables[u] = op.before[u]
            /\ DOMAIN op.before[t] \ {op.key} \subseteq DOMAIN tables[t]
            /\ DOMAIN tables[t] \subseteq DOMAIN op.before[t]
            /\ \A k \in DOMAIN tables[t] : tables[t][k] = op.before[t][k]
            /\ op.key \notin DOMAIN tables[t] <=> (~found \/ AddressedExpired)
            /\ ~AddressedExpired => tables = op.before
            /\ (found /\ ~AddressedExpired)
                => /\ ret = RetPayload(JsonLoads(op.before[t][op.key].data))
                   /\ \A later \in clock..MaxTime :
                        later < ExpiresAt(tables[t][op.key])
                            => FetchReturn(tables[t], op.key, later) = ret

\* C28 witness: a get of a valid entry of activities returned its payload
\* while the table held a second entry and a profile was stored, and left
\* all of them in place.
C28_Witness ==
    /\ op.name = "get_activities"
    /\ op.key \in DOMAIN op.before["activities_cache"]
    /\ ~AddressedExpired
    /\ ret = RetPayload(<<1, 2>>)
    /\ Cardinality(DOMAIN tables["activities_cache"]) = 2
    /\ tables["user_profile_cache"] # EmptyTable
    /\ tables = op.before

(***************************************************************************)
(* Two CacheManager instances on one database file, running interleaved.   *)
(* A set is one statement and its commit, which SQLite makes atomic.  A    *)
(* get is two statements: its SELECT reads outside a transaction, so the   *)
(* lock is released when the row has been fetched, and the DELETE of the   *)
(* expired branch comes later; a statement of the other instance can run   *)
(* in between.                                                             *)
(***************************************************************************)
\* an instance that is in no get
NoGet == [pc |-> "idle", key |-> <<>>, found |-> FALSE, row |-> Row(<<>>, <<>>, <<>>)]

\* cursor.execute(SELECT ...); result = cursor.fetchone(): the instance holds
\* the row it read, or None
select_activities(m, start_date, end_date) ==
    LET cache_key == ActivitiesKey(start_date, end_date)
        table == tables["activities_cache"]
        found == cache_key \in DOMAIN table
    IN  /\ pend[m].pc = "idle"
        /\ pend' = [pend EXCEPT ![m] =
                       [pc |-> "selected", key |-> cache_key, found |-> found,
                        row |-> IF found THEN table[cache_key] ELSE NoGet.row]]
        /\ UNCHANGED <<svars, kvars, rvars, cvars, avars>>

\* the rest of get_activities, on the row that was read: a valid row is
\* decoded and returned; for an expired one DELETE ... WHERE cache_key = ?
\* runs on the table as it is now, and None is returned
finish_get_activities(m) ==
    LET g == pend[m]
        valid == g.found /\ IsValid(clock, FromIsoFormat(g.row.expires_at))
    IN  /\ g.pc = "selected"
        /\ pend' = [pend EXCEPT ![m] = NoGet]
        /\ ret' = IF valid THEN RetPayload(JsonLoads(g.row.data)) ELSE RetNone
        /\ tables' = IF g.found /\ ~valid
                     THEN [tables EXCEPT !["activities_cache"] = DropExpired(@, g.key)]
                     ELSE tables
        /\ ghost' = [ghost EXCEPT !["activities_cache"] =
                        Restrict(@, tables'["activities_cache"])]
        /\ op' = [name |-> "get_activities", by |-> m, key |-> g.key,
                  found |-> g.found, row |-> g.row, before |-> tables]
        /\ last_set' = IF last_set = <<"activities_cache", g.key>> THEN <<>>
                       ELSE last_set
        /\ UNCHANGED <<clock, ttl_hours, kvars, rvars, cvars, avars>>

RaceInit ==
    /\ CacheInit
    /\ kreq = KIdle
    /\ kout = <<>>
    /\ RIdle
    /\ CIdle
    /\ AIdle
    /\ pend = [m \in Managers |-> NoGet]

RaceNext ==
    \/ \E m \in Managers, r \in DateRanges : select_activities(m, r[1], r[2])
    \/ \E m \in Managers : finish_get_activities(m)
    \/ \E m \in Managers, r \in DateRanges : set_activities(m, r[1], r[2], Payloads[m])

RaceSpec == RaceInit /\ [][RaceNext]_vars

\* C29 (as stated): with two instances interleaved a get never deletes a
\* valid entry: when a get has read an expired entry for a key and the other
\* instance completes a set of that key before the get issues its DELETE,
\* the fresh entry is still in the table after the get and a get returns it.
C29_Original ==
    LET table == op.before["activities_cache"]
    IN  (/\ op.name = "get_activities"
         /\ op.found
         /\ ~IsValid(clock, ExpiresAt(op.row))
         /\ op.key \in DOMAIN table
         /\ IsValid(clock, ExpiresAt(table[op.key])))
            => /\ op.key \in DOMAIN tables["activities_cache"]
               /\ tables["activities_cache"][op.key] = table[op.key]
               /\ FetchReturn(tables["activities_cache"], op.key, clock)
                    = RetPayload(JsonLoads(table[op.key].data))

(***************************************************************************)
(* What a failed fetch of the client leaves in the cache.                  *)
(***************************************************************************)
\* the remote call of the last operation failed on every attempt
FetchFailed == call.name \in RetriedFetches /\ call.failed = "remote"

\* C30 (as stated): when the remote call of get_activities or
\* get_body_composition fails on every attempt of the retry budget, that
\* fetch creates, replaces and deletes no cache entry.
C30_Original ==
    FetchFailed => tables[call.table] = call.before

\* C30 (amended): when the remote call of get_activities or
\* get_body_composition fails on every attempt, that fetch writes nothing to
\* the cache: it creates and replaces no entry.  The read that came before
\* the remote call has deleted the entry of the key if there was an expired
\* one, and nothing else; so the key has no entry afterwards, every other
\* entry is as it was, and the next identical fetch misses and calls the
\* service again.
C30_FailedFetchWritesNothing ==
    FetchFailed
        => /\ call.writes = 0
           /\ tables[call.table] = DeleteKeys(call.before, {call.key})
           /\ call.key \in DOMAIN call.before
                => /\ Caching
                   /\ ~IsValid(clock, ExpiresAt(call.before[call.key]))
           /\ FetchReturn(tables[call.table], call.key, clock) = RetNone

\* C30 witness: get_activities found an expired entry, the service failed
\* four times, and the fetch returned [] leaving no entry for the key.
C30_Witness ==
    /\ FetchFailed
    /\ call.name = "get_activities"
    /\ call.remote = 4
    /\ call.key \in DOMAIN call.before
    /\ call.key \notin DOMAIN tables[call.table]
    /\ call.writes = 0

====
